---- MODULE Spec2Model ----
(***************************************************************************)
(* A model of PPOAgent (src/agents.py): the advantage estimator, the       *)
(* minibatch partitioner, the experience collector, the recurrent-state    *)
(* recomputation and the training loop.                                    *)
(*                                                                         *)
(* Tensors are functions over 1..num_workers of sequences over time; a     *)
(* Python time index i is position i + 1 of the sequence.  The recurrent   *)
(* policy state is represented by its per-worker steps-since-reset         *)
(* counter; the hidden tensor is opaque to agents.py and is not modelled.  *)
(* In the training loop the reward, value and probability tensors are      *)
(* represented by their time dimension only; compute_advantages is         *)
(* modelled on numbers in its own specification SpecGae.                   *)
(***************************************************************************)
EXTENDS Integers, Sequences, FiniteSets, TLC

VARIABLES
    \* PPOAgent.__init__ and train parameters
    num_workers, horizon, driver_num_steps,
    num_epochs, num_minibatch, n_collections, use_rnn,
    \* self.memory, the rollout buffer
    memory,
    \* the environment's current time step (is it LAST, per worker) and the
    \* driver loop's variables
    env_last, drv_counter, drv_iter, drv_state,
    \* train's position and locals
    pc, error, collect_n, new_policy_state, policy_state, experiences,
    advantages_len, minibatch_ids, epoch, mb,
    \* history: gradient steps applied in the current cycle, driver.run calls,
    \* what the last recompute_cell_states replayed
    grad_steps, driver_runs, replayed,
    \* compute_advantages: arguments and result
    discount, gae_parameter, rewards, values, dones, advantages

vars == <<num_workers, horizon, driver_num_steps, num_epochs, num_minibatch,
          n_collections, use_rnn, memory, env_last, drv_counter, drv_iter,
          drv_state, pc, error, collect_n, new_policy_state, policy_state,
          experiences, advantages_len, minibatch_ids, epoch, mb, grad_steps,
          driver_runs, replayed, discount, gae_parameter, rewards, values,
          dones, advantages>>

configVars == <<num_workers, horizon, driver_num_steps, num_epochs,
                num_minibatch, n_collections, use_rnn>>

driverVars == <<env_last, drv_counter, drv_iter, drv_state>>

gaeVars == <<discount, gae_parameter, rewards, values, dones, advantages>>

(***************************************************************************)
(* Bounds of the model.                                                    *)
(***************************************************************************)
MaxHorizon == 2

MaxMinibatch == 2

MaxIdsMinibatch == 4

MaxEpochs == 2

MaxCollections == 2

WorkerCounts == {1, 2}

MaxIdsHorizon == 4

MaxGaeCells == 4

(***************************************************************************)
(* Python and TensorFlow primitives.                                       *)
(***************************************************************************)
Min(a, b) == IF a < b THEN a ELSE b

Max(a, b) == IF a > b THEN a ELSE b

\* list(range(n))
Range(n) == [i \in 1..n |-> i - 1]

\* s[a:b] for 0 <= a <= b
Slice(s, a, b) == SubSeq(s, a + 1, Min(b, Len(s)))

\* The first index of s[j:] on a dimension of length len: a negative j counts
\* from the end, and the result is clamped to the dimension.
SliceStart(len, j) == IF j >= 0 THEN Min(j, len) ELSE Max(len + j, 0)

\* s[j:]
SliceFrom(s, j) == SubSeq(s, SliceStart(Len(s), j) + 1, Len(s))

\* len(range(0, h, step))
RangeLen(h, step) == (h + step - 1) \div step

RECURSIVE SumTo(_, _)
SumTo(f, n) == IF n = 0 THEN 0 ELSE f[n] + SumTo(f, n - 1)

(***************************************************************************)
(* compute_minibatch_ids (lines 60-84).                                    *)
(***************************************************************************)
\* line 76: step = self.horizon // num_minibatch
MinibatchStep(h, m) == h \div m

\* line 78: assert self.driver._num_steps % step == 0.  The modulo raises
\* ZeroDivisionError when step is 0, before the assertion is evaluated.
IdsError(h, m, nsteps) ==
    IF MinibatchStep(h, m) = 0 THEN "ZeroDivisionError"
    ELSE IF nsteps % MinibatchStep(h, m) # 0 THEN "AssertionError"
    ELSE "none"

\* line 82: random.shuffle(ids[i]) leaves any permutation of range(horizon)
Shuffles(h) ==
    {p \in [1..h -> 0..(h - 1)] : \A a, b \in 1..h : p[a] = p[b] => a = b}

\* lines 79, 81-82: one worker's index list before chunking
WorkerIds(h, rnn) == IF rnn THEN {Range(h)} ELSE Shuffles(h)

\* the chunk taken one index too long
ChunkOverlapping(s, j, step) == Slice(s, j, j + step + 1)

\* line 83: ids[i][j:j+step]
Chunk(s, j, step) == Slice(s, j, j + step)

\* line 83: [ids[i][j:j+step] for j in range(0, self.horizon, step)]
Chunks(s, h, step) ==
    [k \in 1..RangeLen(h, step) |-> Chunk(s, (k - 1) * step, step)]

\* line 84: [[ids[j][i] for j in range(num_workers)] for i in range(num_minibatch)]
Groups(ids, w, m) == [i \in 1..m |-> [j \in 1..w |-> ids[j][i]]]

\* The lists compute_minibatch_ids can return when line 78 passes.
ComputeMinibatchIds(w, h, m, rnn) ==
    {Groups([j \in 1..w |-> Chunks(sh[j], h, MinibatchStep(h, m))], w, m) :
        sh \in [1..w -> WorkerIds(h, rnn)]}

(***************************************************************************)
(* The actor-critic network's steps-since-reset counter and the policy's   *)
(* initial state.                                                          *)
(***************************************************************************)
\* One step of the network on a done flag: the counter resets to 0 when an
\* episode boundary is crossed and increments otherwise.
NetworkStep(c, done) == IF done THEN 0 ELSE c + 1

\* The network run over a sequence of done flags from counter c.
RECURSIVE NetworkRun(_, _)
NetworkRun(c, ds) ==
    IF ds = <<>> THEN c ELSE NetworkRun(NetworkStep(c, Head(ds)), Tail(ds))

\* policy.get_initial_state(batch_size): zeroed state
InitialState(w) == [i \in 1..w |-> 0]

(***************************************************************************)
(* recompute_cell_states (lines 177-227).                                  *)
(***************************************************************************)
\* line 208: j = self.horizon - steps[i]
ReplayIndex(h, steps) == h - steps

\* lines 204-217 for worker i: what is replayed and the state it gives.
\* start and len are the first time index and the length of dones[i, j:].
ReplayWorker(h, steps, ds) ==
    IF steps = 0
    THEN [steps |-> 0, start |-> 0, len |-> 0, result |-> 0]
    ELSE [steps  |-> steps,
          start  |-> SliceStart(Len(ds), ReplayIndex(h, steps)),
          len    |-> Len(SliceFrom(ds, ReplayIndex(h, steps))),
          result |-> NetworkRun(0, SliceFrom(ds, ReplayIndex(h, steps)))]

\* lines 197-227: steps is read from last_policy_state; the per-worker states
\* are concatenated along the worker axis.
RecomputeCellStates(w, h, exp) ==
    [i \in 1..w |-> ReplayWorker(h, exp.last_policy_state[i], exp.dones[i])]

NoReplay(w) == [i \in 1..w |-> [steps |-> 0, start |-> 0, len |-> 0, result |-> 0]]

(***************************************************************************)
(* The environment driver, driver.run(policy_state, maximum_iterations)    *)
(* (called at line 159): a loop that steps every worker once per           *)
(* iteration, calls the observer with the batched step, and stops when the *)
(* steps counted over all workers reach driver._num_steps or after         *)
(* maximum_iterations iterations.  A LAST step is not counted.             *)
(***************************************************************************)
DriverLoopCond ==
    /\ SumTo(drv_counter, num_workers) < driver_num_steps
    /\ drv_iter < horizon

\* The step types the environment can produce next: after a LAST step it
\* resets, so two LAST steps never follow each other.
NextStepTypes ==
    {n \in [1..num_workers -> BOOLEAN] : \A w \in 1..num_workers : env_last[w] => ~n[w]}

(***************************************************************************)
(* collect_experiences (lines 145-175).                                    *)
(***************************************************************************)
NoExperiences ==
    [len |-> 0, dones |-> <<>>, cycles |-> <<>>, last_policy_state |-> <<>>]

\* line 168: the done flags read one record ahead, the last one from the
\* bootstrap step
ShiftedDones(mem, last_done, w) ==
    [t \in 1..Len(mem) |-> IF t < Len(mem) THEN mem[t + 1].last[w] ELSE last_done[w]]

\* line 172: experiences['last_policy_state']
StoredPolicyState(passed, final) == final

\* lines 165-172: the batch stacked from the buffer
ExtractExperiences(mem, last_done, passed, final) ==
    [len    |-> Len(mem),
     dones  |-> [w \in 1..num_workers |-> ShiftedDones(mem, last_done, w)],
     cycles |-> [t \in 1..Len(mem) |-> mem[t].cycle],
     last_policy_state |-> StoredPolicyState(passed, final)]

\* the buffer left as it is
ClearedMemoryKept(mem) == mem

\* line 174: self.memory.clear()
ClearedMemory(mem) == <<>>

(***************************************************************************)
(* train (lines 229-304).                                                  *)
(***************************************************************************)
\* The driver is built with a step budget of its own, driver._num_steps:
\* a single step, one horizon, or one horizon for every worker.
DriverNumSteps(h, w) == {1, h, h * w}

\* PPOAgent.__init__ (lines 25-32) and the locals of a train not yet called
AgentInit ==
    /\ memory = <<>>
    /\ env_last = [w \in 1..num_workers |-> FALSE]
    /\ drv_counter = [w \in 1..num_workers |-> 0]
    /\ drv_iter = 0
    /\ drv_state = InitialState(num_workers)
    /\ error = "none"
    /\ collect_n = 0
    /\ new_policy_state = InitialState(num_workers)
    /\ policy_state = InitialState(num_workers)
    /\ experiences = NoExperiences
    /\ advantages_len = 0
    /\ minibatch_ids = <<>>
    /\ epoch = 0
    /\ mb = 0
    /\ grad_steps = 0
    /\ driver_runs = 0
    /\ replayed = NoReplay(num_workers)

\* compute_advantages not called
GaeIdle ==
    /\ discount = 0
    /\ gae_parameter = 0
    /\ rewards = <<>>
    /\ values = <<>>
    /\ dones = <<>>
    /\ advantages = <<>>

TrainInit ==
    /\ num_workers \in WorkerCounts
    /\ horizon \in 1..MaxHorizon
    /\ driver_num_steps \in DriverNumSteps(horizon, num_workers)
    /\ num_epochs \in 1..MaxEpochs
    /\ num_minibatch \in 1..MaxMinibatch
    /\ n_collections \in 0..MaxCollections
    /\ use_rnn \in BOOLEAN
    /\ pc = "train"
    /\ AgentInit
    /\ GaeIdle

\* lines 258-259
TrainStart ==
    /\ pc = "train"
    /\ new_policy_state' = InitialState(num_workers)
    /\ pc' = "loop"
    /\ UNCHANGED <<configVars, memory, driverVars, error, collect_n, policy_state,
                   experiences, advantages_len, minibatch_ids, epoch, mb,
                   grad_steps, driver_runs, replayed, gaeVars>>

\* lines 260-262 and the entry of driver.run at line 159
CollectBegin ==
    /\ pc = "loop"
    /\ collect_n < n_collections
    /\ policy_state' = new_policy_state
    /\ drv_state' = new_policy_state
    /\ drv_counter' = [w \in 1..num_workers |-> 0]
    /\ drv_iter' = 0
    /\ driver_runs' = driver_runs + 1
    /\ grad_steps' = 0
    /\ pc' = "driver"
    /\ UNCHANGED <<configVars, memory, env_last, error, collect_n,
                   new_policy_state, experiences, advantages_len, minibatch_ids,
                   epoch, mb, replayed, gaeVars>>

\* one iteration of the driver loop: the policy acts on the current time step,
\* the environment steps, the observer self.memory.append (line 32) gets the
\* batched step
DriverStep ==
    /\ pc = "driver"
    /\ DriverLoopCond
    /\ \E n \in NextStepTypes : env_last' = n
    /\ drv_state' = [w \in 1..num_workers |-> NetworkStep(drv_state[w], env_last[w])]
    /\ memory' = Append(memory, [last |-> env_last, cycle |-> collect_n])
    /\ drv_counter' = [w \in 1..num_workers |->
                          drv_counter[w] + (IF env_last[w] THEN 0 ELSE 1)]
    /\ drv_iter' = drv_iter + 1
    /\ UNCHANGED <<configVars, pc, error, collect_n, new_policy_state,
                   policy_state, experiences, advantages_len, minibatch_ids,
                   epoch, mb, grad_steps, driver_runs, replayed, gaeVars>>

\* lines 159-175 after driver.run returns: bootstrap value, the batch, the clear
CollectFinish ==
    /\ pc = "driver"
    /\ ~DriverLoopCond
    /\ IF memory = <<>>
       THEN \* tf.stack of an empty list raises
            /\ pc' = "failed"
            /\ error' = "ValueError"
            /\ UNCHANGED <<experiences, memory>>
       ELSE /\ experiences' = ExtractExperiences(memory, env_last, policy_state, drv_state)
            /\ memory' = ClearedMemory(memory)
            /\ pc' = "advantages"
            /\ error' = error
    /\ UNCHANGED <<configVars, driverVars, collect_n, new_policy_state,
                   policy_state, advantages_len, minibatch_ids, epoch, mb,
                   grad_steps, driver_runs, replayed, gaeVars>>

\* lines 264-272: the advantages and returns of the batch
EstimateAdvantages ==
    /\ pc = "advantages"
    /\ advantages_len' = experiences.len
    /\ pc' = "minibatch_ids"
    /\ UNCHANGED <<configVars, memory, driverVars, error, collect_n,
                   new_policy_state, policy_state, experiences, minibatch_ids,
                   epoch, mb, grad_steps, driver_runs, replayed, gaeVars>>

\* line 274, failing at line 78
MinibatchIdsFail ==
    /\ pc = "minibatch_ids"
    /\ IdsError(horizon, num_minibatch, driver_num_steps) # "none"
    /\ error' = IdsError(horizon, num_minibatch, driver_num_steps)
    /\ pc' = "failed"
    /\ UNCHANGED <<configVars, memory, driverVars, collect_n, new_policy_state,
                   policy_state, experiences, advantages_len, minibatch_ids,
                   epoch, mb, grad_steps, driver_runs, replayed, gaeVars>>

\* line 274, returning; the loops at lines 275-276 start
MinibatchIdsReturn ==
    /\ pc = "minibatch_ids"
    /\ IdsError(horizon, num_minibatch, driver_num_steps) = "none"
    /\ minibatch_ids' \in ComputeMinibatchIds(num_workers, horizon, num_minibatch, use_rnn)
    /\ epoch' = 1
    /\ mb' = 1
    /\ pc' = "update"
    /\ UNCHANGED <<configVars, memory, driverVars, error, collect_n,
                   new_policy_state, policy_state, experiences, advantages_len,
                   grad_steps, driver_runs, replayed, gaeVars>>

\* lines 278-283: tf.gather with an index outside the batch's time dimension
GatherOutOfRange(idx, exp) ==
    \E w \in 1..num_workers : \E k \in 1..Len(idx[w]) : idx[w][k] >= exp.len

\* the minibatch loop left one minibatch early
LastMinibatchEarly(i, ids) == i >= Len(ids) - 1

\* line 276: is this the last minibatch of the epoch
LastMinibatch(i, ids) == i >= Len(ids)

\* line 275: is this the last epoch
LastEpoch(e, n) == e >= n

\* the loop position after one pass through lines 277-301
AfterUpdate ==
    IF ~LastMinibatch(mb, minibatch_ids)
    THEN /\ mb' = mb + 1
         /\ UNCHANGED <<epoch, pc>>
    ELSE IF ~LastEpoch(epoch, num_epochs)
    THEN /\ mb' = 1
         /\ epoch' = epoch + 1
         /\ UNCHANGED pc
    ELSE /\ pc' = "end_cycle"
         /\ UNCHANGED <<epoch, mb>>

\* lines 277-301: one minibatch: gather, normalise, forward, backward, one
\* optimizer.apply_gradients
Update ==
    /\ pc = "update"
    /\ grad_steps' = grad_steps + 1
    /\ AfterUpdate
    /\ UNCHANGED <<configVars, memory, driverVars, error, collect_n,
                   new_policy_state, policy_state, experiences, advantages_len,
                   minibatch_ids, driver_runs, replayed, gaeVars>>

\* lines 278-283 on a device whose tf.gather rejects an index out of range
\* (on others it yields zeros and Update proceeds)
UpdateGatherFail ==
    /\ pc = "update"
    /\ GatherOutOfRange(minibatch_ids[mb], experiences)
    /\ error' = "InvalidArgumentError"
    /\ pc' = "failed"
    /\ UNCHANGED <<configVars, memory, driverVars, collect_n, new_policy_state,
                   policy_state, experiences, advantages_len, minibatch_ids,
                   epoch, mb, grad_steps, driver_runs, replayed, gaeVars>>

\* the recomputed state carried whatever use_rnn is
CarriedStateAlways(rnn, current, recomputed) == recomputed

\* lines 303-304: the state carried to the next cycle
CarriedState(rnn, current, recomputed) == IF rnn THEN recomputed ELSE current

\* lines 303-304 and the loop's next iteration.  minibatch_ids and the loop
\* positions of lines 274-276 are dead here (line 274 rebinds the list before
\* it is read again) and leave the state.
EndCycle ==
    /\ pc = "end_cycle"
    /\ LET r == RecomputeCellStates(num_workers, horizon, experiences)
       IN /\ new_policy_state' =
                 CarriedState(use_rnn, new_policy_state,
                              [w \in 1..num_workers |-> r[w].result])
          /\ replayed' = IF use_rnn THEN r ELSE replayed
    /\ collect_n' = collect_n + 1
    /\ pc' = "loop"
    /\ minibatch_ids' = <<>>
    /\ epoch' = 0
    /\ mb' = 0
    /\ UNCHANGED <<configVars, memory, driverVars, error, policy_state,
                   experiences, advantages_len, grad_steps, driver_runs,
                   gaeVars>>

\* line 260: the loop ends
TrainReturn ==
    /\ pc = "loop"
    /\ collect_n >= n_collections
    /\ pc' = "done"
    /\ UNCHANGED <<configVars, memory, driverVars, error, collect_n,
                   new_policy_state, policy_state, experiences, advantages_len,
                   minibatch_ids, epoch, mb, grad_steps, driver_runs, replayed,
                   gaeVars>>

Next ==
    \/ TrainStart
    \/ CollectBegin
    \/ DriverStep
    \/ CollectFinish
    \/ EstimateAdvantages
    \/ MinibatchIdsFail
    \/ MinibatchIdsReturn
    \/ Update
    \/ UpdateGatherFail
    \/ EndCycle
    \/ TrainReturn

Spec == TrainInit /\ [][Next]_vars

(***************************************************************************)
(* compute_minibatch_ids on its own: SpecIds.                              *)
(***************************************************************************)
IdsInit ==
    /\ num_workers \in WorkerCounts
    /\ horizon \in 1..MaxIdsHorizon
    /\ driver_num_steps \in DriverNumSteps(horizon, num_workers)
    /\ num_epochs = 1
    /\ num_minibatch \in 1..MaxIdsMinibatch
    /\ n_collections = 1
    /\ use_rnn \in BOOLEAN
    /\ pc = "ids_call"
    /\ AgentInit
    /\ GaeIdle

\* lines 76-78 raising
IdsRaise ==
    /\ pc = "ids_call"
    /\ IdsError(horizon, num_minibatch, driver_num_steps) # "none"
    /\ error' = IdsError(horizon, num_minibatch, driver_num_steps)
    /\ pc' = "ids_failed"
    /\ UNCHANGED <<configVars, memory, driverVars, collect_n, new_policy_state,
                   policy_state, experiences, advantages_len, minibatch_ids,
                   epoch, mb, grad_steps, driver_runs, replayed, gaeVars>>

\* lines 76-84 returning
IdsReturn ==
    /\ pc = "ids_call"
    /\ IdsError(horizon, num_minibatch, driver_num_steps) = "none"
    /\ minibatch_ids' \in ComputeMinibatchIds(num_workers, horizon, num_minibatch, use_rnn)
    /\ pc' = "ids_returned"
    /\ UNCHANGED <<configVars, memory, driverVars, error, collect_n,
                   new_policy_state, policy_state, experiences, advantages_len,
                   epoch, mb, grad_steps, driver_runs, replayed, gaeVars>>

IdsNext ==
    \/ IdsRaise
    \/ IdsReturn

SpecIds == IdsInit /\ [][IdsNext]_vars

(***************************************************************************)
(* compute_advantages (lines 34-58) on its own: SpecGae.  The tensors hold *)
(* small integers, on which the float arithmetic of the code is exact.     *)
(***************************************************************************)
\* line 51: non_terminal = 1.0 - dones
NonTerminal(d) == 1 - d

\* line 52: deltas = rewards + discount*non_terminal*values[:, 1:] - values[:, :-1]
Deltas(g, r, v, d) ==
    [w \in DOMAIN r |->
        [t \in DOMAIN r[w] |->
            r[w][t] + g * NonTerminal(d[w][t]) * v[w][t + 1] - v[w][t]]]

\* line 54: deltas[:, -1]
LastColumn(x) == [w \in DOMAIN x |-> x[w][Len(x[w])]]

\* the mask of the following step used in the recursion
AdvantageStepNextMask(g, l, dl, d, i, last) ==
    [w \in DOMAIN dl |->
        dl[w][i + 1] + g * l * NonTerminal(d[w][i + 2]) * last[w]]

\* line 56: deltas[:, i] + discount*gae_parameter*non_terminal[:, i]*advantages[-1]
AdvantageStep(g, l, dl, d, i, last) ==
    [w \in DOMAIN dl |->
        dl[w][i + 1] + g * l * NonTerminal(d[w][i + 1]) * last[w]]

\* lines 55-56: for i in reversed(range(deltas.shape[1] - 1)), from i down to 0
RECURSIVE AdvantagesLoop(_, _, _, _, _, _)
AdvantagesLoop(g, l, dl, d, i, acc) ==
    IF i < 0 THEN acc
    ELSE AdvantagesLoop(g, l, dl, d, i - 1,
             Append(acc, AdvantageStep(g, l, dl, d, i, acc[Len(acc)])))

\* line 57: tf.stack(advantages[::-1], axis=1)
StackReversed(cols, ws) ==
    [w \in ws |-> [t \in 1..Len(cols) |-> cols[Len(cols) - t + 1][w]]]

\* lines 51-58
ComputeAdvantages(g, l, r, v, d) ==
    LET dl == Deltas(g, r, v, d)
        T  == Len(dl[1])
    IN StackReversed(AdvantagesLoop(g, l, dl, d, T - 2, <<LastColumn(dl)>>), DOMAIN r)

Discounts == {1, 2}

GaeParameters == {1, 2}

GaeShapes ==
    {s \in WorkerCounts \X (1..MaxGaeCells) : s[1] * s[2] <= MaxGaeCells}

GaeInit ==
    /\ \E s \in GaeShapes :
          /\ num_workers = s[1]
          /\ horizon = s[2]
    /\ driver_num_steps = horizon * num_workers
    /\ num_epochs = 1
    /\ num_minibatch = 1
    /\ n_collections = 1
    /\ use_rnn = FALSE
    /\ pc = "gae_call"
    /\ AgentInit
    /\ discount \in Discounts
    /\ gae_parameter \in GaeParameters
    /\ rewards \in [1..num_workers -> [1..horizon -> 0..1]]
    /\ values \in [1..num_workers -> [1..(horizon + 1) -> 0..1]]
    /\ dones \in [1..num_workers -> [1..horizon -> 0..1]]
    /\ advantages = <<>>

\* compute_advantages called and returning
GaeCall ==
    /\ pc = "gae_call"
    /\ advantages' = ComputeAdvantages(discount, gae_parameter, rewards, values, dones)
    /\ pc' = "gae_returned"
    /\ UNCHANGED <<configVars, memory, driverVars, error, collect_n,
                   new_policy_state, policy_state, experiences, advantages_len,
                   minibatch_ids, epoch, mb, grad_steps, driver_runs, replayed,
                   discount, gae_parameter, rewards, values, dones>>

GaeNext == GaeCall

SpecGae == GaeInit /\ [][GaeNext]_vars

(***************************************************************************)
(* Properties.                                                             *)
(***************************************************************************)
Divides(m, h) == h % m = 0

\* train is inside a cycle, between driver.run's return and the cycle's end
AfterCollect == pc \in {"advantages", "minibatch_ids", "update", "end_cycle"}

\* recompute_cell_states has just returned
JustRecomputed == pc = "loop" /\ use_rnn /\ collect_n > 0

\* C1: compute_minibatch_ids never returns index groups when num_minibatch does
\* not evenly divide horizon: it fails with a fatal error for every such pair.
C1_FailsUnlessDivides ==
    ~Divides(num_minibatch, horizon) => pc # "ids_returned"

\* C2: when num_minibatch does not evenly divide horizon, train aborts before
\* any collection: driver.run is never invoked and no record is ever appended
\* to the rollout buffer.
C2_AbortsBeforeCollection ==
    ~Divides(num_minibatch, horizon) => (driver_runs = 0 /\ memory = <<>>)

RECURSIVE WorkerIndices(_, _, _)
WorkerIndices(ids, w, g) ==
    IF g = 0 THEN <<>> ELSE WorkerIndices(ids, w, g - 1) \o ids[g][w]

\* C3: when num_minibatch divides horizon, the groups compute_minibatch_ids
\* returns are num_minibatch groups that hold, for every worker, horizon /
\* num_minibatch indices each and together every index of [0, horizon)
\* exactly once.
C3_PartitionCoverage ==
    (pc = "ids_returned" /\ Divides(num_minibatch, horizon)) =>
        /\ Len(minibatch_ids) = num_minibatch
        /\ \A w \in 1..num_workers :
              LET all == WorkerIndices(minibatch_ids, w, num_minibatch)
              IN /\ Len(all) = horizon
                 /\ {all[k] : k \in 1..Len(all)} = 0..(horizon - 1)
                 /\ \A g \in 1..num_minibatch :
                       Len(minibatch_ids[g][w]) = horizon \div num_minibatch

C3_Witness ==
    /\ pc = "ids_returned"
    /\ horizon = 4
    /\ num_minibatch = 2
    /\ num_workers = 2
    /\ ~use_rnn
    /\ minibatch_ids[1] = <<(<<3, 0>>), (<<1, 2>>)>>
    /\ minibatch_ids[2] = <<(<<2, 1>>), (<<0, 3>>)>>

\* C4: the policy state stored in the Experience Batch, whose counter
\* recompute_cell_states inspects, is the state that was passed into the
\* collection (the state at the start of the rollout just consumed).
C4_StoredStateIsPassedState ==
    /\ AfterCollect => experiences.last_policy_state = policy_state
    /\ JustRecomputed =>
          \A w \in 1..num_workers : replayed[w].steps = policy_state[w]

\* C5: a batch whose time dimension differs from horizon is never used for
\* advantage estimation: a buffer that does not hold exactly horizon records at
\* extraction ends the run in a fatal error.
C5_LengthMismatchIsFatal ==
    advantages_len # 0 => advantages_len = horizon

\* C6: the rollout buffer is empty at the entry and at the exit of every
\* collect_experiences call (it holds records only while driver.run is
\* running), and a batch holds only the records of its own cycle.
C6_BufferEmptyBetweenCollections ==
    /\ pc # "driver" => memory = <<>>
    /\ pc = "driver" =>
          /\ Len(memory) = drv_iter
          /\ \A t \in 1..Len(memory) : memory[t].cycle = collect_n
    /\ AfterCollect =>
          \A t \in 1..experiences.len : experiences.cycles[t] = collect_n

C6_Witness ==
    /\ pc = "advantages"
    /\ collect_n = 1
    /\ experiences.len = 2
    /\ memory = <<>>

ClaimDelta(w, t) ==
    rewards[w][t] + discount * (1 - dones[w][t]) * values[w][t + 1] - values[w][t]

RECURSIVE ClaimAdvantage(_, _)
ClaimAdvantage(w, t) ==
    IF t = horizon THEN ClaimDelta(w, t)
    ELSE ClaimDelta(w, t)
           + discount * gae_parameter * (1 - dones[w][t]) * ClaimAdvantage(w, t + 1)

\* C7: compute_advantages returns, for every worker and time step, the value of
\* the backward recursion A[w,T-1] = delta[w,T-1], A[w,t] = delta[w,t] +
\* gamma*lambda*(1-D[w,t])*A[w,t+1]; where D[w,t] = 1 the result is R[w,t] -
\* V[w,t].
C7_GaeRecursion ==
    pc = "gae_returned" =>
        /\ DOMAIN advantages = 1..num_workers
        /\ \A w \in 1..num_workers :
              /\ Len(advantages[w]) = horizon
              /\ \A t \in 1..horizon :
                    /\ advantages[w][t] = ClaimAdvantage(w, t)
                    /\ dones[w][t] = 1 =>
                          advantages[w][t] = rewards[w][t] - values[w][t]

C7_Witness ==
    /\ pc = "gae_returned"
    /\ horizon >= 3
    /\ \E w \in 1..num_workers :
          /\ dones[w][1] = 1
          /\ dones[w][2] = 0
          /\ advantages[w][2] > 1
          /\ advantages[w][1] = rewards[w][1] - values[w][1]

\* C8: train returns after exactly n_collections cycles; every cycle applies
\* exactly num_epochs * num_minibatch gradient steps, none of them before the
\* cycle's collection and advantage estimation are over, all of them before
\* the next cycle's collection; until it returns or fails, train can proceed.
C8_CyclesAndGradientSteps ==
    /\ collect_n <= n_collections
    /\ pc = "done" => (collect_n = n_collections /\ driver_runs = n_collections)
    /\ pc \in {"driver", "advantages", "minibatch_ids"} =>
          (grad_steps = 0 /\ driver_runs = collect_n + 1)
    /\ pc = "update" =>
          /\ epoch \in 1..num_epochs
          /\ mb \in 1..num_minibatch
          /\ grad_steps = (epoch - 1) * num_minibatch + (mb - 1)
          /\ advantages_len = experiences.len
    /\ pc = "end_cycle" => grad_steps = num_epochs * num_minibatch
    /\ (pc \in {"loop", "done"} /\ collect_n > 0) =>
          grad_steps = num_epochs * num_minibatch
    /\ pc \notin {"done", "failed"} => ENABLED Next

C8_Witness ==
    /\ pc = "done"
    /\ n_collections = 2
    /\ num_epochs = 2
    /\ num_minibatch = 2
    /\ driver_runs = 2
    /\ grad_steps = 4

\* C9: for every worker whose counter steps[i] is nonzero, whatever its value,
\* the slice recompute_cell_states replays starts at time index horizon -
\* steps[i], which lies in [0, horizon), and is the last steps[i] steps of the
\* horizon.
C9_ReplaysLastSteps ==
    (JustRecomputed /\ experiences.len = horizon) =>
        \A w \in 1..num_workers :
            replayed[w].steps # 0 =>
                /\ 0 <= horizon - replayed[w].steps
                /\ horizon - replayed[w].steps < horizon
                /\ replayed[w].start = horizon - replayed[w].steps
                /\ replayed[w].len = replayed[w].steps

\* C10: the state handed to collect_experiences is the initial state in the
\* first cycle; without use_rnn it is the initial state in every cycle, with
\* use_rnn it is the result of the previous cycle's recompute_cell_states; the
\* minibatch updates of a cycle leave it as it was handed over.
C10_PolicyStateLifecycle ==
    /\ pc = "loop" /\ collect_n = 0 => new_policy_state = InitialState(num_workers)
    /\ (pc = "driver" /\ drv_iter = 0) => drv_state = policy_state
    /\ (pc = "driver" \/ AfterCollect) =>
          /\ new_policy_state = policy_state
          /\ ~use_rnn => policy_state = InitialState(num_workers)
          /\ collect_n = 0 => policy_state = InitialState(num_workers)
          /\ (use_rnn /\ collect_n > 0) =>
                \A w \in 1..num_workers : policy_state[w] = replayed[w].result

C10_Witness ==
    /\ pc = "update"
    /\ use_rnn
    /\ collect_n = 1
    /\ grad_steps > 0
    /\ \E w \in 1..num_workers : policy_state[w] > 0
    /\ \A w \in 1..num_workers : policy_state[w] = replayed[w].result

====
